---- MODULE Spec2Model ----
(***************************************************************************)
(* LoadDockerNodes (launch_ros_sandbox/actions/load_docker_nodes.py).      *)
(*                                                                         *)
(* The action's startup coroutine _start_docker_nodes and its shutdown     *)
(* handler __on_shutdown are modelled as two threads of control that share *)
(* the fields _completed_future, _started_task, _container and _executor.  *)
(* Every Python statement that touches a shared field is one atomic step.  *)
(* The bodies of the two `with self._shutdown_lock` blocks run while the   *)
(* lock is held; all other steps of the coroutine run without the lock and *)
(* so interleave freely with the shutdown handler.                         *)
(***************************************************************************)
EXTENDS Integers, Sequences, FiniteSets, TLC

\* Largest number of node descriptions given to the constructor.
MaxNodes == 2

\* Largest number of shutdown notifications delivered to one action.
MaxShutdowns == 2

\* Longest entrypoint string given to _containerized_cmd.
MaxLen == 3

\* Largest number of chunks a log generator yields.
MaxStream == 2

\* Largest number of elements of a generator yielded as a chunk.
MaxInner == 2

VARIABLES
    numNodes,          \* len(node_descriptions)
    pc,                \* position of the coroutine _start_docker_nodes
    idx,               \* index of the node description the loop is at
    mustCancel,        \* asyncio.Task: cancellation requested
    started_task,      \* self._started_task
    completed_future,  \* self._completed_future
    futState,          \* state of the Future made by execute()
    container,         \* self._container
    containerState,    \* state of the Docker container of this action
    executorShutdown,  \* self._executor has been shut down
    execs,             \* node indexes passed to exec_run, in order
    pumps,             \* node indexes whose _handle_logs was submitted
    running,           \* _handle_logs workers that have not returned
    lockHolder,        \* owner of self._shutdown_lock
    shutdowns,         \* invocations of __on_shutdown so far
    pullResult,        \* outcome of images.pull
    startResult,       \* outcome of containers.run
    noContainerLogged, \* 'no active Docker container!' was logged
    pullCalls, startCalls, stopCalls, cancelCalls, retireCalls, taskCancelCalls,
    last,              \* the last statement run and the shared fields it used
    returned,          \* value of the last get_asyncio_future() call
    entrypoint,        \* _containerized_cmd: the policy's entrypoint string
    package,           \* _containerized_cmd: resolved package name
    executable,        \* _containerized_cmd: resolved executable name
    cmd,               \* _containerized_cmd: its outcome
    log_generator,     \* _handle_logs: the chunks the generator yields
    pos,               \* _handle_logs: index of the next chunk
    logged,            \* _handle_logs: calls made to the logger, in order
    pumpState          \* _handle_logs: reading, returned or raised

\* State of one LoadDockerNodes action and of its container.
actionVars == <<numNodes, pc, idx, mustCancel, started_task, completed_future,
                futState, container, containerState, executorShutdown, execs,
                pumps, running, lockHolder, shutdowns, pullResult,
                startResult, noContainerLogged, pullCalls, startCalls,
                stopCalls, cancelCalls, retireCalls, taskCancelCalls, last,
                returned>>

\* Arguments and outcome of one call of _containerized_cmd.
cmdVars == <<entrypoint, package, executable, cmd>>

\* State of one _handle_logs worker.
logVars == <<log_generator, pos, logged, pumpState>>

vars == <<actionVars, cmdVars, logVars>>

None == "None"

\* Positions at which the coroutine has ended.
TaskEnded == {"done", "cancelled", "raised"}

\* Positions at which the task exists and has not ended.
TaskOutstanding == {"scheduled", "pull", "start", "fail", "failLocked",
                    "load", "exec", "submit"}

\* Record of a step: the statement run, the statement run before it, the
\* shared fields it read and wrote, and whether it ran inside a
\* `with self._shutdown_lock` block.  Entering a with block is not recorded.
Step(op, reads, writes, locked) ==
    [op |-> op, prev |-> last.op, reads |-> reads, writes |-> writes,
     locked |-> locked]

\* Variant of FutureCancel that calls set_result(None) in place of cancel().
FutureSetResult(st) == IF st = "pending" THEN "finished" ELSE st

\* Variant of FutureCancel that leaves a pending future pending.
FutureCancelIgnored(st) == st

\* asyncio.Future.cancel(): a pending future becomes cancelled, a future
\* that is already done is left as it is.
FutureCancel(st) == IF st = "pending" THEN "cancelled" ELSE st

\* Variant of FirstResume in which a task cancelled before it began runs
\* its body all the same.
FirstResumeIgnoresCancel(flag) == "pull"

\* First resumption of the task made by create_task(): a cancellation
\* requested before the coroutine has begun is thrown into it at once and
\* no statement of its body runs; otherwise the body starts with the pull.
FirstResume(flag) == IF flag THEN "cancelled" ELSE "pull"

\* Variant of ExecutorShutdown that leaves the pool accepting work.
ExecutorStaysOpen(down) == down

\* self._executor.shutdown(wait=False): the pool refuses new work from now
\* on; workers already running are neither joined nor interrupted.
ExecutorShutdown(down) == TRUE

\* Variant of FutureCleared that keeps the reference after cancelling.
FutureKept(f) == f

\* self._completed_future = None at the end of the handler's second step.
FutureCleared(f) == None

\* Variant of ContainerStop that does not reach the Docker daemon.
ContainerStopSkipped(st) == st

\* self._container.stop(): the container (run with auto_remove) is gone.
ContainerStop(st) == "stopped"

\* asyncio.Task.cancel(): no effect on a task that is done, otherwise the
\* request is recorded and delivered when the task is next resumed.
TaskCancel(p, flag) == IF p \in TaskEnded THEN flag ELSE TRUE

\* No call of _containerized_cmd is being looked at.
CmdIdle ==
    /\ entrypoint = <<>>
    /\ package = <<>>
    /\ executable = <<>>
    /\ cmd = [status |-> "unset", value |-> <<>>]

\* No _handle_logs worker is being looked at.
LogIdle ==
    /\ log_generator = <<>>
    /\ pos = 1
    /\ logged = <<>>
    /\ pumpState = "idle"

\* The action as __init__ leaves it.
ActionInit ==
    /\ returned = "unset"
    /\ numNodes \in 1..MaxNodes
    /\ pc = "none"
    /\ idx = 1
    /\ mustCancel = FALSE
    /\ started_task = None
    /\ completed_future = None
    /\ futState = "none"
    /\ container = None
    /\ containerState = "absent"
    /\ executorShutdown = FALSE
    /\ execs = <<>>
    /\ pumps = <<>>
    /\ running = {}
    /\ lockHolder = "free"
    /\ shutdowns = 0
    /\ pullResult = "none"
    /\ startResult = "none"
    /\ noContainerLogged = FALSE
    /\ pullCalls = 0
    /\ startCalls = 0
    /\ stopCalls = 0
    /\ cancelCalls = 0
    /\ retireCalls = 0
    /\ taskCancelCalls = 0
    /\ last = [op |-> "init", prev |-> "init", reads |-> {}, writes |-> {},
               locked |-> FALSE]

Init == ActionInit /\ CmdIdle /\ LogIdle

\* execute(): register __on_shutdown, create the future, schedule the task.
Execute ==
    /\ pc = "none"
    /\ completed_future' = "future"
    /\ futState' = "pending"
    /\ started_task' = "task"
    /\ pc' = "scheduled"
    /\ last' = Step("execute", {}, {"_completed_future", "_started_task"},
                    FALSE)
    /\ UNCHANGED <<cmdVars, logVars, returned,
                   numNodes, idx, mustCancel, container, containerState,
                   executorShutdown, execs, pumps, running, lockHolder,
                   shutdowns, pullResult, startResult, noContainerLogged,
                   pullCalls, startCalls, stopCalls, cancelCalls,
                   retireCalls, taskCancelCalls>>

\* The event loop runs the task made by create_task() for the first time.
task_first_step ==
    /\ pc = "scheduled"
    /\ pc' = FirstResume(mustCancel)
    /\ last' = Step("task_first_step", {}, {}, lockHolder = "task")
    /\ UNCHANGED <<cmdVars, logVars, returned,
                   numNodes, idx, mustCancel, started_task, completed_future,
                   futState, container, containerState, executorShutdown,
                   execs, pumps, running, lockHolder, shutdowns, pullResult,
                   startResult, noContainerLogged, pullCalls, startCalls,
                   stopCalls, cancelCalls, retireCalls, taskCancelCalls>>

\* Variant of pull_docker_image in which ImageNotFound from the pull is
\* treated like ImageNotFound from the start and ends the startup.
pull_docker_image_fatal ==
    /\ pc = "pull"
    /\ \E r \in {"ok", "ImageNotFound"} :
         /\ pullResult' = r
         /\ pc' = IF r = "ok" THEN "start" ELSE "fail"
    /\ pullCalls' = pullCalls + 1
    /\ last' = Step("pull_docker_image", {}, {}, lockHolder = "task")
    /\ UNCHANGED <<cmdVars, logVars, returned,
                   numNodes, idx, mustCancel, started_task, completed_future,
                   futState, container, containerState, executorShutdown,
                   execs, pumps, running, lockHolder, shutdowns, startResult,
                   noContainerLogged, startCalls, stopCalls, cancelCalls,
                   retireCalls, taskCancelCalls>>

\* _pull_docker_image() inside the first try block: ImageNotFound is
\* logged as a warning and the coroutine goes on.
pull_docker_image ==
    /\ pc = "pull"
    /\ \E r \in {"ok", "ImageNotFound"} : pullResult' = r
    /\ pullCalls' = pullCalls + 1
    /\ pc' = "start"
    /\ last' = Step("pull_docker_image", {}, {}, lockHolder = "task")
    /\ UNCHANGED <<cmdVars, logVars, returned,
                   numNodes, idx, mustCancel, started_task, completed_future,
                   futState, container, containerState, executorShutdown,
                   execs, pumps, running, lockHolder, shutdowns, startResult,
                   noContainerLogged, startCalls, stopCalls, cancelCalls,
                   retireCalls, taskCancelCalls>>

\* _start_docker_container() inside the second try block: on success the
\* new container is stored in self._container, on ImageNotFound nothing is
\* stored and the except branch is entered.
start_docker_container ==
    /\ pc = "start"
    /\ startCalls' = startCalls + 1
    /\ \E r \in {"ok", "ImageNotFound"} :
         /\ startResult' = r
         /\ IF r = "ok"
            THEN /\ container' = "container"
                 /\ containerState' = "running"
                 /\ pc' = "load"
                 /\ last' = Step("start_docker_container", {}, {"_container"},
                                 lockHolder = "task")
            ELSE /\ pc' = "fail"
                 /\ last' = Step("start_docker_container", {}, {},
                                 lockHolder = "task")
                 /\ UNCHANGED <<container, containerState>>
    /\ UNCHANGED <<cmdVars, logVars, returned,
                   numNodes, idx, mustCancel, started_task, completed_future,
                   futState, executorShutdown, execs, pumps, running,
                   lockHolder, shutdowns, pullResult, noContainerLogged,
                   pullCalls, stopCalls, cancelCalls, retireCalls,
                   taskCancelCalls>>

\* except ImageNotFound: `with self._shutdown_lock` is entered.
start_failed_lock ==
    /\ pc = "fail"
    /\ lockHolder = "free"
    /\ lockHolder' = "task"
    /\ pc' = "failLocked"
    /\ UNCHANGED <<cmdVars, logVars, returned, last,
                   numNodes, idx, mustCancel, started_task, completed_future,
                   futState, container, containerState, executorShutdown,
                   execs, pumps, running, shutdowns, pullResult, startResult,
                   noContainerLogged, pullCalls, startCalls, stopCalls,
                   cancelCalls, retireCalls, taskCancelCalls>>

\* Variant of start_failed_cancel that drops the reference to the future
\* without cancelling it.
start_failed_no_cancel ==
    /\ pc = "failLocked"
    /\ lockHolder = "task"
    /\ completed_future' = None
    /\ last' = Step("start_failed_cancel", {"_completed_future"},
                    {"_completed_future"}, lockHolder = "task")
    /\ lockHolder' = "free"
    /\ pc' = "done"
    /\ UNCHANGED <<cmdVars, logVars, returned,
                   numNodes, idx, mustCancel, started_task, container,
                   containerState, executorShutdown, execs, pumps, running,
                   shutdowns, pullResult, startResult, noContainerLogged,
                   pullCalls, startCalls, stopCalls, retireCalls,
                   taskCancelCalls, futState, cancelCalls>>

\* Variant of start_failed_cancel that cancels the future and keeps the
\* reference to it.
start_failed_keep_reference ==
    /\ pc = "failLocked"
    /\ lockHolder = "task"
    /\ IF completed_future # None
       THEN /\ futState' = FutureCancel(futState)
            /\ cancelCalls' = cancelCalls + 1
       ELSE UNCHANGED <<futState, cancelCalls>>
    /\ last' = Step("start_failed_cancel", {"_completed_future"}, {},
                    lockHolder = "task")
    /\ lockHolder' = "free"
    /\ pc' = "done"
    /\ UNCHANGED <<cmdVars, logVars, returned,
                   numNodes, idx, mustCancel, started_task, container,
                   containerState, executorShutdown, execs, pumps, running,
                   shutdowns, pullResult, startResult, noContainerLogged,
                   pullCalls, startCalls, stopCalls, retireCalls,
                   taskCancelCalls, completed_future>>

\* Body of that with block, then return: the future is cancelled and the
\* reference to it dropped, unless it is already None.
start_failed_cancel ==
    /\ pc = "failLocked"
    /\ lockHolder = "task"
    /\ IF completed_future # None
       THEN /\ futState' = FutureCancel(futState)
            /\ cancelCalls' = cancelCalls + 1
            /\ completed_future' = None
            /\ last' = Step("start_failed_cancel", {"_completed_future"},
                            {"_completed_future"}, lockHolder = "task")
       ELSE /\ last' = Step("start_failed_cancel", {"_completed_future"}, {},
                            lockHolder = "task")
            /\ UNCHANGED <<futState, cancelCalls, completed_future>>
    /\ lockHolder' = "free"
    /\ pc' = "done"
    /\ UNCHANGED <<cmdVars, logVars, returned,
                   numNodes, idx, mustCancel, started_task, container,
                   containerState, executorShutdown, execs, pumps, running,
                   shutdowns, pullResult, startResult, noContainerLogged,
                   pullCalls, startCalls, stopCalls, retireCalls,
                   taskCancelCalls>>

\* Variant of load_nodes_in_docker without the test of self._container.
load_nodes_in_docker_unchecked ==
    /\ pc = "load"
    /\ pc' = "exec"
    /\ idx' = 1
    /\ last' = Step("load_nodes_in_docker", {}, {}, lockHolder = "task")
    /\ UNCHANGED <<cmdVars, logVars, returned,
                   numNodes, mustCancel, started_task, completed_future,
                   futState, container, containerState, executorShutdown,
                   execs, pumps, running, lockHolder, shutdowns, pullResult,
                   startResult, pullCalls, startCalls, stopCalls,
                   cancelCalls, retireCalls, taskCancelCalls,
                   noContainerLogged>>

\* _load_nodes_in_docker(): the test `self._container is None`.
load_nodes_in_docker ==
    /\ pc = "load"
    /\ IF container = None
       THEN /\ noContainerLogged' = TRUE
            /\ pc' = "done"
       ELSE /\ pc' = "exec"
            /\ UNCHANGED noContainerLogged
    /\ idx' = 1
    /\ last' = Step("load_nodes_in_docker", {"_container"}, {},
                    lockHolder = "task")
    /\ UNCHANGED <<cmdVars, logVars, returned,
                   numNodes, mustCancel, started_task, completed_future,
                   futState, container, containerState, executorShutdown,
                   execs, pumps, running, lockHolder, shutdowns, pullResult,
                   startResult, pullCalls, startCalls, stopCalls,
                   cancelCalls, retireCalls, taskCancelCalls>>

\* self._container.exec_run(cmd, tty=True, stream=True) for the node at
\* idx; with self._container None the attribute lookup raises and the
\* coroutine ends with that exception.
exec_run ==
    /\ pc = "exec"
    /\ IF container = None
       THEN /\ pc' = "raised"
            /\ UNCHANGED execs
       ELSE /\ execs' = Append(execs, idx)
            /\ pc' = "submit"
    /\ last' = Step("exec_run", {"_container"}, {}, lockHolder = "task")
    /\ UNCHANGED <<cmdVars, logVars, returned,
                   numNodes, idx, mustCancel, started_task, completed_future,
                   futState, container, containerState, executorShutdown,
                   pumps, running, lockHolder, shutdowns, pullResult,
                   startResult, noContainerLogged, pullCalls, startCalls,
                   stopCalls, cancelCalls, retireCalls, taskCancelCalls>>

\* Variant of LoopNext that leaves the loop after the first description.
LoopNextOnce(i, n) == "done"

\* `for description in self._node_descriptions`: after the body has run
\* for description i of n, the loop takes the next one or is over.
LoopNext(i, n) == IF i = n THEN "done" ELSE "exec"

\* Variant of run_in_executor that awaits the future run_in_executor
\* returns: the loop goes on only when the worker just submitted has
\* returned.
run_in_executor_awaited ==
    /\ pc = "submit"
    /\ IF \E k \in 1..Len(pumps) : pumps[k] = idx
       THEN /\ idx \notin running
            /\ pc' = LoopNext(idx, numNodes)
            /\ idx' = IF idx = numNodes THEN idx ELSE idx + 1
            /\ UNCHANGED <<pumps, running>>
       ELSE IF executorShutdown
            THEN /\ pc' = "raised"
                 /\ UNCHANGED <<pumps, running, idx>>
            ELSE /\ pumps' = Append(pumps, idx)
                 /\ running' = running \cup {idx}
                 /\ UNCHANGED <<pc, idx>>
    /\ last' = Step("run_in_executor", {}, {}, lockHolder = "task")
    /\ UNCHANGED <<cmdVars, logVars, returned,
                   numNodes, mustCancel, started_task, completed_future,
                   futState, container, containerState, executorShutdown,
                   execs, lockHolder, shutdowns, pullResult, startResult,
                   noContainerLogged, pullCalls, startCalls, stopCalls,
                   cancelCalls, retireCalls, taskCancelCalls>>

\* run_in_executor(self._executor, self._handle_logs, log_generator): an
\* executor that was shut down refuses the submission with RuntimeError.
\* Then the loop goes to the next description or the coroutine returns.
run_in_executor ==
    /\ pc = "submit"
    /\ IF executorShutdown
       THEN /\ pc' = "raised"
            /\ UNCHANGED <<pumps, running, idx>>
       ELSE /\ pumps' = Append(pumps, idx)
            /\ running' = running \cup {idx}
            /\ pc' = LoopNext(idx, numNodes)
            /\ idx' = IF idx = numNodes THEN idx ELSE idx + 1
    /\ last' = Step("run_in_executor", {}, {}, lockHolder = "task")
    /\ UNCHANGED <<cmdVars, logVars, returned,
                   numNodes, mustCancel, started_task, completed_future,
                   futState, container, containerState, executorShutdown,
                   execs, lockHolder, shutdowns, pullResult, startResult,
                   noContainerLogged, pullCalls, startCalls, stopCalls,
                   cancelCalls, retireCalls, taskCancelCalls>>

\* _handle_logs returns in its worker thread: the log stream has ended.
handle_logs_returns ==
    /\ \E i \in running : running' = running \ {i}
    /\ last' = Step("handle_logs_returns", {}, {}, FALSE)
    /\ UNCHANGED <<cmdVars, logVars, returned,
                   numNodes, pc, idx, mustCancel, started_task,
                   completed_future, futState, container, containerState,
                   executorShutdown, execs, pumps, lockHolder, shutdowns,
                   pullResult, startResult, noContainerLogged, pullCalls,
                   startCalls, stopCalls, cancelCalls, retireCalls,
                   taskCancelCalls>>

\* The shutdown event is delivered to the handler registered by execute():
\* __on_shutdown enters `with self._shutdown_lock`.
on_shutdown_lock ==
    /\ pc # "none"
    /\ shutdowns < MaxShutdowns
    /\ lockHolder = "free"
    /\ lockHolder' = "shutdown"
    /\ shutdowns' = shutdowns + 1
    /\ UNCHANGED <<cmdVars, logVars, returned, last,
                   numNodes, pc, idx, mustCancel, started_task,
                   completed_future, futState, container, containerState,
                   executorShutdown, execs, pumps, running, pullResult,
                   startResult, noContainerLogged, pullCalls, startCalls,
                   stopCalls, cancelCalls, retireCalls, taskCancelCalls>>

\* Body of __on_shutdown under the lock.  Task.cancel() never raises
\* CancelledError, so self._started_task keeps its value.  The container
\* is stopped inside the branch taken when the future is not None.
on_shutdown ==
    /\ lockHolder = "shutdown"
    /\ IF started_task # None
       THEN /\ mustCancel' = TaskCancel(pc, mustCancel)
            /\ taskCancelCalls' = taskCancelCalls + 1
       ELSE UNCHANGED <<mustCancel, taskCancelCalls>>
    /\ IF completed_future # None
       THEN /\ executorShutdown' = ExecutorShutdown(executorShutdown)
            /\ retireCalls' = retireCalls + 1
            /\ futState' = FutureCancel(futState)
            /\ cancelCalls' = cancelCalls + 1
            /\ completed_future' = FutureCleared(completed_future)
            /\ IF container # None
               THEN /\ stopCalls' = stopCalls + 1
                    /\ containerState' = ContainerStop(containerState)
                    /\ container' = None
                    /\ last' = Step("on_shutdown",
                                    {"_started_task", "_completed_future", "_container"},
                                    {"_completed_future", "_container"},
                                    lockHolder = "shutdown")
               ELSE /\ last' = Step("on_shutdown",
                                    {"_started_task", "_completed_future", "_container"},
                                    {"_completed_future"},
                                    lockHolder = "shutdown")
                    /\ UNCHANGED <<stopCalls, containerState, container>>
       ELSE /\ last' = Step("on_shutdown",
                            {"_started_task", "_completed_future"}, {},
                            lockHolder = "shutdown")
            /\ UNCHANGED <<executorShutdown, retireCalls, futState,
                           cancelCalls, completed_future, stopCalls,
                           containerState, container>>
    /\ lockHolder' = "free"
    /\ UNCHANGED <<cmdVars, logVars, returned,
                   numNodes, pc, idx, started_task, execs, pumps, running,
                   shutdowns, pullResult, startResult, noContainerLogged,
                   pullCalls, startCalls>>

\* get_asyncio_future(), called by the launch service or any other holder
\* of the action once execute() has run: returns the field as it is now.
get_asyncio_future ==
    /\ pc # "none"
    /\ returned' = completed_future
    /\ UNCHANGED <<cmdVars, logVars, last, numNodes, pc, idx, mustCancel,
                   started_task, completed_future, futState, container,
                   containerState, executorShutdown, execs, pumps, running,
                   lockHolder, shutdowns, pullResult, startResult,
                   noContainerLogged, pullCalls, startCalls, stopCalls,
                   cancelCalls, retireCalls, taskCancelCalls>>

Next ==
    \/ Execute
    \/ task_first_step
    \/ pull_docker_image
    \/ start_docker_container
    \/ start_failed_lock
    \/ start_failed_cancel
    \/ load_nodes_in_docker
    \/ exec_run
    \/ run_in_executor
    \/ handle_logs_returns
    \/ on_shutdown_lock
    \/ on_shutdown
    \/ get_asyncio_future

Spec == Init /\ [][Next]_vars

\* The steps of the task that runs _start_docker_nodes.
TaskStep ==
    \/ task_first_step
    \/ pull_docker_image
    \/ start_docker_container
    \/ start_failed_lock
    \/ start_failed_cancel
    \/ load_nodes_in_docker
    \/ exec_run
    \/ run_in_executor

\* The event loop keeps running the task it was given, every docker call
\* of the task returns, and a handler that entered its with block runs
\* its body.  Nothing is assumed about the log workers or about whether
\* a shutdown is ever delivered.
FairSpec == Spec /\ WF_vars(TaskStep) /\ WF_vars(on_shutdown)

TypeOK ==
    /\ numNodes \in 1..MaxNodes
    /\ pc \in {"none"} \cup TaskOutstanding \cup TaskEnded
    /\ idx \in 1..numNodes
    /\ mustCancel \in BOOLEAN
    /\ started_task \in {None, "task"}
    /\ completed_future \in {None, "future"}
    /\ futState \in {"none", "pending", "cancelled"}
    /\ container \in {None, "container"}
    /\ containerState \in {"absent", "running", "stopped"}
    /\ lockHolder \in {"free", "task", "shutdown"}
    /\ shutdowns \in 0..MaxShutdowns

\* The identity sequence <<1, ..., n>>: every node once, in list order.
AllNodes(n) == [i \in 1..n |-> i]

\* The startup task has ended and no invocation of the handler is running.
Quiescent == pc \in TaskEnded /\ lockHolder = "free"

(***************************************************************************)
(* Claims                                                                  *)
(***************************************************************************)

\* C1: once the shutdown handler has run and the startup task has ended,
\* in whatever order their steps interleaved, no container started by this
\* action is still running and self._container is None.
C1_CleanRelease ==
    (shutdowns >= 1 /\ Quiescent) =>
        (containerState # "running" /\ container = None)

\* C2: when containers.run raised ImageNotFound, whatever the pull did, no
\* container exists, no exec_run and no _handle_logs worker is ever issued,
\* and once the task has returned the future has been cancelled by exactly
\* one cancel() call and self._completed_future is None; this stays so
\* after any later shutdown.
C2_StartNotFound ==
    startResult = "ImageNotFound" =>
        /\ container = None
        /\ containerState = "absent"
        /\ execs = <<>>
        /\ pumps = <<>>
        /\ pc = "done" =>
             /\ futState = "cancelled"
             /\ cancelCalls = 1
             /\ completed_future = None

\* C2 witness: pull and start both raised, the except branch cancelled the
\* future, and a later shutdown found nothing left to do.
C2_Witness ==
    /\ pullResult = "ImageNotFound"
    /\ startResult = "ImageNotFound"
    /\ pc = "done"
    /\ last.op = "on_shutdown"
    /\ retireCalls = 0
    /\ cancelCalls = 1
    /\ futState = "cancelled"

\* C3: when the pull raised ImageNotFound and no shutdown has been
\* delivered, the task still calls containers.run; if that succeeds the
\* container runs, the future is pending and never cancelled, and when the
\* task has returned every node has been exec'd and given a log worker.
C3_PullFailureSwallowed ==
    (pullResult = "ImageNotFound" /\ shutdowns = 0) =>
        /\ pc \in TaskEnded => startCalls = 1
        /\ startResult = "ok" =>
             /\ containerState = "running"
             /\ futState = "pending"
             /\ completed_future # None
             /\ cancelCalls = 0
             /\ pc \in TaskEnded =>
                  /\ pc = "done"
                  /\ execs = AllNodes(numNodes)
                  /\ pumps = AllNodes(numNodes)

\* C3 witness: pull failed, start succeeded, all of several nodes were
\* launched and nobody has asked for shutdown.
C3_Witness ==
    /\ pullResult = "ImageNotFound"
    /\ startResult = "ok"
    /\ shutdowns = 0
    /\ pc = "done"
    /\ numNodes > 1
    /\ Len(execs) = numNodes
    /\ futState = "pending"

\* A step that is the body of __on_shutdown: the handler leaves its lock.
OnShutdownStep == lockHolder = "shutdown" /\ lockHolder' = "free"

\* C4: a shutdown that runs when the task has returned with the container
\* running and the future pending stops the container (the only stop ever
\* made), sets self._container to None, shuts the executor down without
\* touching its running workers, and leaves the future cancelled.
C4_ShutdownWhileRunning ==
    /\ [](stopCalls <= 1)
    /\ [][(OnShutdownStep /\ pc = "done" /\ containerState = "running"
                          /\ futState = "pending") =>
             /\ stopCalls' = 1
             /\ containerState' = "stopped"
             /\ container' = None
             /\ executorShutdown'
             /\ retireCalls' = 1
             /\ running' = running
             /\ futState' = "cancelled"
             /\ completed_future' = None]_vars

\* C4 witness: all nodes launched, then a shutdown stopped the container
\* while log workers were still reading.
C4_Witness ==
    /\ last.op = "on_shutdown"
    /\ pc = "done"
    /\ pumps = AllNodes(numNodes)
    /\ running # {}
    /\ stopCalls = 1
    /\ containerState = "stopped"
    /\ container = None
    /\ executorShutdown
    /\ futState = "cancelled"

\* The state a handler invocation can change, besides the cancel request
\* it makes to the task.
ShutdownVisible ==
    <<container, containerState, completed_future, futState,
      executorShutdown, stopCalls, cancelCalls, retireCalls>>

\* C5: an invocation of __on_shutdown that follows another one with no
\* other statement in between stops nothing, cancels nothing, shuts no
\* executor down and leaves container, future and their states as they are.
C5_ShutdownIdempotent ==
    [][(OnShutdownStep /\ last.op = "on_shutdown") =>
           UNCHANGED ShutdownVisible]_vars

\* C5 witness: two invocations in a row, the first of which stopped a
\* running container.
C5_Witness ==
    /\ last.op = "on_shutdown"
    /\ last.prev = "on_shutdown"
    /\ stopCalls = 1
    /\ cancelCalls = 1
    /\ retireCalls = 1

\* C6: the handler asks for the task's cancellation whenever it runs while
\* the task has not ended; a task that had not begun when that happened
\* goes straight to cancelled, and a cancelled task has pulled nothing,
\* started nothing and launched nothing.
C6_CancelBeforeStart ==
    /\ [][(OnShutdownStep /\ pc \in TaskOutstanding) =>
              (mustCancel' /\ taskCancelCalls' = taskCancelCalls + 1)]_vars
    /\ [][(pc = "scheduled" /\ mustCancel) =>
              pc' \in {"scheduled", "cancelled"}]_vars
    /\ [](pc = "cancelled" =>
              /\ pullCalls = 0
              /\ startCalls = 0
              /\ execs = <<>>
              /\ pumps = <<>>
              /\ containerState = "absent")

\* C6 witness: shutdown ran before the task's first step and the task
\* ended cancelled without pulling.
C6_Witness ==
    /\ pc = "cancelled"
    /\ taskCancelCalls >= 1
    /\ mustCancel
    /\ pullCalls = 0
    /\ futState = "cancelled"

\* C7: whenever the handler runs while self._container is set, it stops
\* the container and clears the field, also when self._completed_future
\* is already None.
C7_StopIndependent ==
    [][(OnShutdownStep /\ container # None) =>
           /\ stopCalls' = stopCalls + 1
           /\ containerState' = "stopped"
           /\ container' = None]_vars

\* C8: cancel() is applied to the future made by execute() at most once,
\* whatever the order of the except branch and the shutdown invocations.
C8_CancelAtMostOnce == cancelCalls <= 1

\* C8 witness: the start failed, the handler cancelled the future before
\* the except branch got the lock, and the branch and a second invocation
\* of the handler both found the field None.
C8_Witness ==
    /\ startResult = "ImageNotFound"
    /\ pc = "done"
    /\ shutdowns >= 2
    /\ lockHolder = "free"
    /\ last.op = "on_shutdown"
    /\ retireCalls = 1
    /\ cancelCalls = 1

\* C9: containers.run is called at most once, a running container is
\* always the one self._container refers to, the field goes from None to a
\* container only by the one successful start and back to None only
\* together with stopping that container.
C9_SingleContainer ==
    /\ [](startCalls <= 1)
    /\ [](containerState = "running" => container = "container")
    /\ [](container # None => containerState = "running")
    /\ [][container' # container =>
            IF container = None
            THEN startCalls = 0 /\ startResult' = "ok"
                 /\ containerState' = "running"
            ELSE container' = None /\ stopCalls' = stopCalls + 1
                 /\ containerState' = "stopped"]_vars

\* C9 witness: the container was started, then stopped and the field
\* cleared by the handler.
C9_Witness ==
    /\ startCalls = 1
    /\ stopCalls = 1
    /\ containerState = "stopped"
    /\ container = None
    /\ "_container" \in last.writes

\* Statements of the startup path (execute and the coroutine).
StartupOps ==
    {"execute", "task_first_step", "pull_docker_image",
     "start_docker_container", "start_failed_cancel",
     "load_nodes_in_docker", "exec_run", "run_in_executor"}

\* C10: every statement that writes _container, _completed_future or
\* _started_task runs with the shutdown lock held, and after a shutdown
\* has been requested no statement of the startup path reads or writes
\* _container or _completed_future without the lock.
C10_LockDiscipline ==
    /\ last.writes # {} => last.locked
    /\ (shutdowns >= 1 /\ last.op \in StartupOps
          /\ (last.reads \cup last.writes)
                \cap {"_container", "_completed_future"} # {})
         => last.locked

\* C11: no failure met during the startup sequence escapes the coroutine:
\* the task never ends with an exception, and a start that failed shows
\* only as the cancelled future once the task has returned.
C11_FailureContainment ==
    /\ pc # "raised"
    /\ (startResult = "ImageNotFound" /\ pc = "done") => futState = "cancelled"

\* C12 as stated: every call of get_asyncio_future() made after execute()
\* returns the future that execute() created.
C12_AlwaysTheFuture ==
    [][get_asyncio_future => returned' = "future"]_vars

\* C12 amended: a call of get_asyncio_future() made after execute()
\* returns the future that execute() created as long as that future is
\* pending, and returns None only when the future has been cancelled.
C12_FutureUntilCancelled ==
    [][get_asyncio_future =>
          /\ futState = "pending" => returned' = "future"
          /\ returned' = None => futState = "cancelled"
          /\ returned' \in {None, "future"}]_vars

\* C12 witness: the future was handed out while pending, and a call made
\* after the handler cancelled it got None.
C12_Witness ==
    /\ returned = None
    /\ futState = "cancelled"
    /\ last.op = "on_shutdown"
    /\ cancelCalls = 1

(***************************************************************************)
(* _containerized_cmd                                                      *)
(*                                                                         *)
(* Strings are sequences of one-character strings.  The entrypoint is any  *)
(* string over EntryChars of at most MaxLen characters.                    *)
(***************************************************************************)

\* Characters of an entrypoint: two word characters, the blank and the
\* single quote.
EntryChars == {"b", "c", " ", "'"}

\* All strings over S of at most n characters.
Strings(S, n) == UNION {[1..k -> S] : k \in 0..n}

\* Package and executable names after perform_substitutions.
PackageNames == {<<"p", "k", "g">>, <<"p", " ", "g">>}
ExecutableNames == {<<"t">>, <<"r", "u", "n">>}

\* The literals 'ros2' and 'run'.
Ros2 == <<"r", "o", "s", "2">>
Run == <<"r", "u", "n">>

\* shlex.split(entrypoint): the POSIX-mode scanner of shlex with
\* whitespace_split set, restricted to EntryChars.  Between tokens blanks
\* are skipped; a blank ends a token; quotes are dropped and what they
\* enclose is taken literally (an empty pair of quotes makes an empty
\* token); a quote left open raises ValueError('No closing quotation').
RECURSIVE ShlexScan(_, _, _, _, _)
ShlexScan(s, i, state, tok, out) ==
    IF i > Len(s)
    THEN IF state = "quote"
         THEN [status |-> "ValueError", value |-> <<>>]
         ELSE IF state = "word"
              THEN [status |-> "returned", value |-> Append(out, tok)]
              ELSE [status |-> "returned", value |-> out]
    ELSE LET ch == s[i] IN
         IF state = "blank"
         THEN IF ch = " " THEN ShlexScan(s, i + 1, "blank", <<>>, out)
              ELSE IF ch = "'" THEN ShlexScan(s, i + 1, "quote", <<>>, out)
              ELSE ShlexScan(s, i + 1, "word", <<ch>>, out)
         ELSE IF state = "word"
         THEN IF ch = " "
              THEN ShlexScan(s, i + 1, "blank", <<>>, Append(out, tok))
              ELSE IF ch = "'" THEN ShlexScan(s, i + 1, "quote", tok, out)
              ELSE ShlexScan(s, i + 1, "word", Append(tok, ch), out)
         ELSE IF ch = "'" THEN ShlexScan(s, i + 1, "word", tok, out)
              ELSE ShlexScan(s, i + 1, "quote", Append(tok, ch), out)

shlex_split(s) == ShlexScan(s, 1, "blank", <<>>, <<>>)

\* Variant of containerized_cmd with package and executable exchanged.
containerized_cmd_swapped(e, p, x) ==
    LET t == shlex_split(e) IN
    IF t.status = "ValueError" THEN t
    ELSE [status |-> "returned", value |-> t.value \o <<Ros2, Run, x, p>>]

\* _containerized_cmd(entrypoint, package, executable):
\* shlex.split(entrypoint) + ['ros2', 'run', package, executable].
containerized_cmd(e, p, x) ==
    LET t == shlex_split(e) IN
    IF t.status = "ValueError" THEN t
    ELSE [status |-> "returned", value |-> t.value \o <<Ros2, Run, p, x>>]

\* One call of _containerized_cmd on arbitrary arguments.
CmdInit ==
    /\ ActionInit
    /\ LogIdle
    /\ entrypoint \in Strings(EntryChars, MaxLen)
    /\ package \in PackageNames
    /\ executable \in ExecutableNames
    /\ cmd = [status |-> "unset", value |-> <<>>]

\* The call made for one node description in _load_nodes_in_docker.
call_containerized_cmd ==
    /\ cmd.status = "unset"
    /\ cmd' = containerized_cmd(entrypoint, package, executable)
    /\ UNCHANGED <<actionVars, logVars, entrypoint, package, executable>>

CmdNext == call_containerized_cmd

CmdSpec == CmdInit /\ [][CmdNext]_vars

\* The characters of s that are not in the set drop, in order.
Without(s, drop) == SelectSeq(s, LAMBDA ch : ch \notin drop)

\* Concatenation of a sequence of strings.
RECURSIVE Concat(_)
Concat(ss) == IF ss = <<>> THEN <<>> ELSE Head(ss) \o Concat(Tail(ss))

\* Positions at which a maximal blank-free run of s begins.
FieldStarts(s) ==
    {i \in 1..Len(s) : s[i] # " " /\ (i = 1 \/ s[i - 1] = " ")}

\* Last position of the blank-free run of s that begins at i.
FieldEnd(s, i) ==
    CHOOSE j \in i..Len(s) :
        /\ \A k \in i..j : s[k] # " "
        /\ (j = Len(s) \/ s[j + 1] = " ")

\* The blank-separated fields of s, from left to right.
Fields(s) ==
    [k \in 1..Cardinality(FieldStarts(s)) |->
        LET i == CHOOSE a \in FieldStarts(s) :
                     Cardinality({b \in FieldStarts(s) : b < a}) = k - 1
        IN SubSeq(s, i, FieldEnd(s, i))]

\* C13: the command built for a node is the token sequence of the
\* entrypoint followed by 'ros2', 'run', the package and the executable,
\* in that order: its last four elements are exactly those, and what
\* precedes them are the entrypoint's tokens (its blank-separated fields
\* when it has no quotes; in every case its word characters in order).
C13_CommandShape ==
    cmd.status = "returned" =>
        LET v == cmd.value
            n == Len(v)
            prefix == SubSeq(v, 1, n - 4)
        IN /\ n >= 4
           /\ v[n - 3] = Ros2
           /\ v[n - 2] = Run
           /\ v[n - 1] = package
           /\ v[n] = executable
           /\ (\A i \in 1..Len(entrypoint) : entrypoint[i] # "'")
                 => prefix = Fields(entrypoint)
           /\ Without(Concat(prefix), {" "})
                 = Without(entrypoint, {" ", "'"})

\* C13 witness: a two-token entrypoint ('b c', as in 'bash -c') and a
\* package name that differs from the executable name.
C13_Witness ==
    /\ entrypoint = <<"b", " ", "c">>
    /\ package = <<"p", "k", "g">>
    /\ executable = <<"t">>
    /\ cmd = [status |-> "returned",
              value |-> <<<<"b">>, <<"c">>, Ros2, Run,
                          <<"p", "k", "g">>, <<"t">>>>]

(***************************************************************************)
(* _handle_logs                                                            *)
(*                                                                         *)
(* A bytes object is a sequence of bytes: "x" and " " are ASCII, "c3" is   *)
(* the lead byte and "a9" the continuation byte of a two-byte sequence.    *)
(* A chunk is None, a bytes object, an int or a generator of bytes.        *)
(***************************************************************************)

NoneChunk == [kind |-> "NoneType", data |-> <<>>, items |-> <<>>]
IntChunk == [kind |-> "int", data |-> <<>>, items |-> <<>>]
BytesChunk(b) == [kind |-> "bytes", data |-> b, items |-> <<>>]
GeneratorChunk(bs) == [kind |-> "generator", data |-> <<>>, items |-> bs]

\* bytes objects yielded as chunks of their own.
PlainBytes ==
    {<<>>, <<" ">>, <<" ", "x", " ">>, <<"c3", "a9">>, <<"c3">>}

\* bytes objects yielded by a generator that is itself a chunk.
InnerBytes == {<<"x", " ">>, <<"c3", "a9">>, <<"c3">>}

Chunks ==
    {NoneChunk, IntChunk}
        \cup {BytesChunk(b) : b \in PlainBytes}
        \cup {GeneratorChunk(bs) : bs \in Strings(InnerBytes, MaxInner)}

\* bytes.decode('utf-8'): ASCII bytes map to themselves, the pair c3 a9
\* to the one character U+00E9; a lead byte without its continuation or a
\* continuation byte on its own raises UnicodeDecodeError.
RECURSIVE Utf8Decode(_, _, _)
Utf8Decode(b, i, out) ==
    IF i > Len(b) THEN [ok |-> TRUE, text |-> out]
    ELSE IF b[i] \in {"x", " "} THEN Utf8Decode(b, i + 1, Append(out, b[i]))
    ELSE IF b[i] = "c3" /\ i < Len(b) /\ b[i + 1] = "a9"
         THEN Utf8Decode(b, i + 2, Append(out, "U+00E9"))
    ELSE [ok |-> FALSE, text |-> <<>>]

decode(b) == Utf8Decode(b, 1, <<>>)

\* Variant of strip that removes leading blanks only.
RECURSIVE lstrip(_)
lstrip(t) ==
    IF t # <<>> /\ Head(t) = " " THEN lstrip(Tail(t)) ELSE t

\* str.strip(): leading and trailing whitespace removed.
RECURSIVE strip(_)
strip(t) ==
    IF t # <<>> /\ Head(t) = " " THEN strip(Tail(t))
    ELSE IF t # <<>> /\ t[Len(t)] = " " THEN strip(SubSeq(t, 1, Len(t) - 1))
    ELSE t

\* A call self.__logger.info(text).
Info(text) == [level |-> "info", text |-> text]

\* A call self.__logger.exception('Unable to print log of type ...').
UnableToPrint(kind) == [level |-> "exception", text |-> <<kind>>]

\* `not log`: None and the empty bytes object are false.
Falsy(chunk) ==
    chunk.kind = "NoneType" \/ (chunk.kind = "bytes" /\ chunk.data = <<>>)

\* The inner loop `for l in log: info(l.decode('utf-8').strip())`, which
\* has no exception handler: the lines logged, and whether a decode raised.
RECURSIVE InnerLoop(_, _, _)
InnerLoop(items, i, lines) ==
    IF i > Len(items) THEN [raised |-> FALSE, lines |-> lines]
    ELSE LET d == decode(items[i]) IN
         IF d.ok
         THEN InnerLoop(items, i + 1, Append(lines, Info(strip(d.text))))
         ELSE [raised |-> TRUE, lines |-> lines]

\* One worker reading an arbitrary generator.
LogInit ==
    /\ ActionInit
    /\ numNodes = 1
    /\ CmdIdle
    /\ log_generator \in Strings(Chunks, MaxStream)
    /\ pos = 1
    /\ logged = <<>>
    /\ pumpState = "reading"

\* One round of `for log in log_generator` in _handle_logs, or its end.
handle_logs ==
    /\ pumpState = "reading"
    /\ IF pos > Len(log_generator)
       THEN /\ pumpState' = "returned"
            /\ UNCHANGED <<pos, logged>>
       ELSE LET log == log_generator[pos] IN
            IF Falsy(log)
            THEN /\ pos' = pos + 1
                 /\ UNCHANGED <<logged, pumpState>>
            ELSE IF log.kind = "generator"
            THEN LET r == InnerLoop(log.items, 1, <<>>) IN
                 /\ logged' = logged \o r.lines
                 /\ pumpState' = IF r.raised THEN "raised" ELSE "reading"
                 /\ pos' = pos + 1
            ELSE /\ logged' =
                      IF log.kind = "bytes" /\ decode(log.data).ok
                      THEN Append(logged, Info(strip(decode(log.data).text)))
                      ELSE Append(logged, UnableToPrint(log.kind))
                 /\ pos' = pos + 1
                 /\ UNCHANGED pumpState
    /\ UNCHANGED <<actionVars, cmdVars, log_generator>>

LogNext == handle_logs

LogSpec == LogInit /\ [][LogNext]_vars

\* A chunk whose handling meets a decoding or type error: bytes that are
\* not UTF-8, a value without decode(), or a generator with such an element.
ChunkFails(chunk) ==
    \/ chunk.kind = "int"
    \/ chunk.kind = "bytes" /\ ~decode(chunk.data).ok
    \/ chunk.kind = "generator"
          /\ \E i \in 1..Len(chunk.items) : ~decode(chunk.items[i]).ok

\* Number of 'Unable to print' diagnostics logged so far.
Diagnostics == Cardinality({i \in 1..Len(logged) : logged[i].level = "exception"})

\* C14: whatever the generator yields, the worker is not ended by a
\* decoding or type error: it reads every chunk, and when it returns it
\* has logged exactly one 'Unable to print' diagnostic per failing chunk.
C14_LogErrorRecovery ==
    /\ pumpState # "raised"
    /\ pumpState = "returned" =>
         /\ pos = Len(log_generator) + 1
         /\ Diagnostics =
              Cardinality({i \in 1..Len(log_generator) :
                              ChunkFails(log_generator[i])})

\* A chunk of the three shapes the worker expects: None or empty, bytes
\* that are UTF-8, a generator of bytes that are UTF-8.
WellFormed(chunk) ==
    \/ chunk.kind = "NoneType"
    \/ chunk.kind = "bytes" /\ decode(chunk.data).ok
    \/ chunk.kind = "generator"
          /\ \A i \in 1..Len(chunk.items) : decode(chunk.items[i]).ok

\* The text t from its first to its last non-blank character.
Trim(t) ==
    LET nb == {i \in 1..Len(t) : t[i] # " "} IN
    IF nb = {} THEN <<>>
    ELSE SubSeq(t, CHOOSE i \in nb : \A j \in nb : i <= j,
                   CHOOSE i \in nb : \A j \in nb : i >= j)

\* The lines a well-formed stream stands for: nothing for an empty or
\* absent chunk, one line for a bytes chunk, one line per element for a
\* generator, in stream order.
RECURSIVE ExpectedLines(_)
ExpectedLines(stream) ==
    IF stream = <<>> THEN <<>>
    ELSE LET c == Head(stream)
             own == IF c.kind = "NoneType" THEN <<>>
                    ELSE IF c.kind = "bytes"
                    THEN IF c.data = <<>> THEN <<>>
                         ELSE <<Info(Trim(decode(c.data).text))>>
                    ELSE [i \in 1..Len(c.items) |->
                             Info(Trim(decode(c.items[i]).text))]
         IN own \o ExpectedLines(Tail(stream))

\* C15: on a stream of well-formed chunks the worker never raises and the
\* lines it has sent to the logger are, at every moment, the in-order
\* flattening of the chunks it has read; when it returns, of all of them.
C15_LogForwarding ==
    (\A i \in 1..Len(log_generator) : WellFormed(log_generator[i])) =>
        /\ pumpState # "raised"
        /\ logged = ExpectedLines(SubSeq(log_generator, 1, pos - 1))
        /\ pumpState = "returned" => pos = Len(log_generator) + 1

\* C15 witness: a generator of two elements followed by a plain chunk,
\* all needing trimming or multi-byte decoding, forwarded as three lines.
C15_Witness ==
    /\ log_generator = <<GeneratorChunk(<<<<"x", " ">>, <<"c3", "a9">>>>),
                         BytesChunk(<<" ", "x", " ">>)>>
    /\ pumpState = "returned"
    /\ logged = <<Info(<<"x">>), Info(<<"U+00E9">>), Info(<<"x">>)>>

(***************************************************************************)
(* Claims about the order and the end of the startup task                  *)
(***************************************************************************)

\* C16: the pull is attempted before the start, nodes are exec'd only
\* after a successful start and only while self._container is set, and a
\* launch that finds self._container None logs the diagnostic and execs
\* nothing.
C16_StartupOrdering ==
    /\ [](startCalls >= 1 => pullCalls = 1)
    /\ [](execs # <<>> => startResult = "ok")
    /\ [](noContainerLogged => (execs = <<>> /\ pumps = <<>>))
    /\ [][execs' # execs =>
            (container # None /\ containerState = "running")]_vars
    /\ [][(pc = "load" /\ container = None /\ pc' # "load") =>
            (noContainerLogged' /\ pc' = "done" /\ execs' = <<>>)]_vars

\* C16 witness: the container was started, the handler stopped it before
\* the launch began, and the launch logged the diagnostic.
C16_Witness ==
    /\ startResult = "ok"
    /\ stopCalls = 1
    /\ noContainerLogged
    /\ pc = "done"
    /\ execs = <<>>

\* C17: nodes are exec'd once each in list order, every log worker reads
\* the stream of the exec it was submitted after, there are never more
\* workers than nodes, and a launch loop that ran to its end has issued
\* one exec and one worker for every node.
C17_OnePumpPerNode ==
    /\ execs = AllNodes(Len(execs))
    /\ Len(execs) <= numNodes
    /\ Len(pumps) <= Len(execs)
    /\ Len(execs) <= Len(pumps) + 1
    /\ pumps = SubSeq(execs, 1, Len(pumps))
    /\ running \subseteq {pumps[k] : k \in 1..Len(pumps)}
    /\ Cardinality(running) <= numNodes
    /\ (pc = "done" /\ startResult = "ok" /\ ~noContainerLogged) =>
           (execs = AllNodes(numNodes) /\ pumps = AllNodes(numNodes))

\* C17 witness: several nodes, pull and start succeeded, the loop ended
\* and all the workers are reading.
C17_Witness ==
    /\ numNodes > 1
    /\ pullResult = "ok"
    /\ pc = "done"
    /\ pumps = AllNodes(numNodes)
    /\ Cardinality(running) = numNodes

\* C18: the future is only ever pending or cancelled; it leaves pending
\* only by a cancel() made under the lock; after a startup that launched
\* every node it is pending for as long as no shutdown was delivered.
C18_NeverResolved ==
    /\ [](futState \in {"none", "pending", "cancelled"})
    /\ []((pc = "done" /\ pumps = AllNodes(numNodes) /\ shutdowns = 0)
            => futState = "pending")
    /\ []((startResult = "ok" /\ futState = "cancelled") => retireCalls = 1)
    /\ [][(futState = "pending" /\ futState' # "pending") =>
            /\ futState' = "cancelled"
            /\ cancelCalls' = cancelCalls + 1
            /\ lockHolder \in {"shutdown", "task"}]_vars
    /\ [][futState = "cancelled" => futState' = "cancelled"]_vars

\* C18 witness: every node launched, every log worker already returned,
\* no shutdown yet, and the future is still pending.
C18_Witness ==
    /\ pc = "done"
    /\ pumps = AllNodes(numNodes)
    /\ running = {}
    /\ shutdowns = 0
    /\ futState = "pending"

\* C19: once scheduled, the startup task comes to its end, whether or not
\* any log worker ever returns.
C19_TaskTerminates == (pc # "none") ~> (pc \in TaskEnded)

\* C19 witness: the task has ended after the last launch while every log
\* worker is still reading.
C19_Witness ==
    /\ pc = "done"
    /\ numNodes > 1
    /\ Len(execs) = numNodes
    /\ running = {k : k \in 1..numNodes}
    /\ last.op = "run_in_executor"

\* C20: after the handler has shut the executor down, no exec_run is
\* issued and no _handle_logs is submitted.
C20_NoWorkAfterRetire ==
    [][executorShutdown => (execs' = execs /\ pumps' = pumps)]_vars

====
